---- MODULE Spec2Model ----
(***************************************************************************)
(* Model of the two UniverseRAG clients of shoprag/rag-universe:           *)
(*   "plain"    - src/src/index.ts: configuration handed to init, no       *)
(*                validation of ids, no retry;                             *)
(*   "retrying" - src/unnamed/part_000 (lines 51-241): configuration       *)
(*                validated by the constructor, one retry in fetchApi.     *)
(* JavaScript strings are sequences of one-character strings, JavaScript   *)
(* values are tagged records, thrown Errors are records holding the        *)
(* message template and its interpolated arguments.                        *)
(***************************************************************************)
EXTENDS Integers, Sequences, FiniteSets, TLC

VARIABLES variant, constructed, config, serverUrl, universe, token,
          required, last, pc, options, requests, attempts, result

vars == <<variant, constructed, config, serverUrl, universe, token,
          required, last, pc, options, requests, attempts, result>>

(* ------------------------- characters and strings ---------------------- *)

Lower == {"a","b","c","d","e","f","g","h","i","j","k","l","m",
          "n","o","p","q","r","s","t","u","v","w","x","y","z"}

Upper == {"A","B","C","D","E","F","G","H","I","J","K","L","M",
          "N","O","P","Q","R","S","T","U","V","W","X","Y","Z"}

Digit == {"0","1","2","3","4","5","6","7","8","9"}

Alnum == Lower \cup Upper \cup Digit

WhiteSpace == {" "}

\* Strings over the alphabet A of length at most n.
Strs(A, n) == UNION {[1..k -> A] : k \in 0..n}

(* ------------------------- JavaScript values --------------------------- *)

Undefined == [t |-> "undefined", v |-> <<>>]

Str(s) == [t |-> "string", v |-> s]

\* A non-zero number, held by its decimal digits.
Num(d) == [t |-> "number", v |-> d]

\* JavaScript truthiness: undefined and "" are falsy.
Truthy(x) == \/ x.t = "string" /\ x.v # <<>>
             \/ x.t = "number"

\* Conversion inside a template literal `${x}`.
Interpolate(x) == IF x.t = "undefined"
               THEN <<"u","n","d","e","f","i","n","e","d">>
               ELSE x.v

\* typeof x === 'string'
IsString(x) == x.t = "string"

RECURSIVE TrimStart(_)
TrimStart(s) == IF s # <<>> /\ Head(s) \in WhiteSpace THEN TrimStart(Tail(s)) ELSE s

RECURSIVE TrimEnd(_)
TrimEnd(s) == IF s # <<>> /\ s[Len(s)] \in WhiteSpace
              THEN TrimEnd(SubSeq(s, 1, Len(s) - 1)) ELSE s

\* String.prototype.trim
Trim(s) == TrimEnd(TrimStart(s))

(* ------------------------- thrown errors and results ------------------- *)

Err(m, a) == [state |-> "error", msg |-> m, args |-> a]

Ok == [state |-> "ok", msg |-> "", args |-> <<>>]

NoResult == [state |-> "none", msg |-> "", args |-> <<>>]

Pending == [state |-> "pending", msg |-> "", args |-> <<>>]

\* error.message: the template followed by its interpolated arguments.
Message(e) == <<e.msg>> \o e.args

(* ------------------------- new URL(serverUrl) -------------------------- *)

SchemeChars == Alnum \cup {"+", "-", "."}

\* Index of the first occurrence of c in s, 0 when there is none.
IndexOf(s, c) == IF \E i \in 1..Len(s) : s[i] = c
                 THEN CHOOSE i \in 1..Len(s) : s[i] = c /\ \A j \in 1..(i-1) : s[j] # c
                 ELSE 0

Drop(s, n) == SubSeq(s, n + 1, Len(s))

DigitValue(c) == CHOOSE n \in 0..9 : <<"0","1","2","3","4","5","6","7","8","9">>[n + 1] = c

Digit10(n) == <<"0","1","2","3","4","5","6","7","8","9">>[n + 1]

RECURSIVE PortValue(_)
PortValue(s) == IF s = <<>> THEN 0
                ELSE LET n == 10 * PortValue(SubSeq(s, 1, Len(s) - 1)) + DigitValue(s[Len(s)])
                     IN IF n > 65535 THEN 65536 ELSE n

\* Host-and-port part of an authority of a non-special scheme: the host may
\* be empty only when no port follows; a port is a run of digits <= 65535.
ValidAuthority(a) ==
    LET c == IndexOf(a, ":") IN
    IF c = 0 THEN TRUE
    ELSE /\ c > 1
         /\ \A i \in (c+1)..Len(a) : a[i] \in Digit
         /\ PortValue(Drop(a, c)) <= 65535

\* Whether `new URL(s)` returns (TRUE) or throws (FALSE), for the URL
\* standard's parser without a base URL, on strings that hold none of
\* "?", "#", "@", "[", "\\", "%", no white space, and whose scheme is not
\* one of the special schemes (http, https, ws, wss, ftp, file).
IsValidURL(s) ==
    LET c == IndexOf(s, ":") IN
    /\ c > 1
    /\ s[1] \in Lower \cup Upper
    /\ \A i \in 2..(c-1) : s[i] \in SchemeChars
    /\ LET rest == Drop(s, c) IN
       IF Len(rest) >= 2 /\ rest[1] = "/" /\ rest[2] = "/"
       THEN LET after == Drop(rest, 2)
                slash == IndexOf(after, "/")
            IN ValidAuthority(IF slash = 0 THEN after ELSE SubSeq(after, 1, slash - 1))
       ELSE TRUE

(* ------------------------- configuration ------------------------------- *)

\* /^[a-zA-Z0-9_]+$/.test(universe)
UniverseRegexTest(s) == /\ s # <<>>
                        /\ \A i \in 1..Len(s) : s[i] \in Alnum \cup {"_"}

Config(u, n) == [serverUrl |-> u, universe |-> n]

NoConfig == Config(Undefined, Undefined)

CredentialPrefix == <<"u","n","i","v","e","r","s","e","_","t","o","k","e","n","_">>

RECURSIVE ReplaceNonAlnum(_)
\* serverUrl.replace(/[^a-zA-Z0-9]/g, '_')
ReplaceNonAlnum(s) ==
    IF s = <<>> THEN <<>>
    ELSE <<IF Head(s) \in Alnum THEN Head(s) ELSE "_">> \o ReplaceNonAlnum(Tail(s))

\* The replace without its g flag: only the first match is replaced.
generateCredentialNameFirstOnly(url) ==
    LET bad == {i \in 1..Len(url) : url[i] \notin Alnum} IN
    CredentialPrefix \o
    (IF bad = {} THEN url
     ELSE [url EXCEPT ![CHOOSE i \in bad : \A j \in bad : i <= j] = "_"])

generateCredentialName(url) == CredentialPrefix \o ReplaceNonAlnum(url)

\* credentials[name] of a host-supplied map, a function on a finite set of names.
Lookup(credentials, name) ==
    IF name \in DOMAIN credentials THEN Str(credentials[name]) ELSE Undefined

NoCredentials == <<>>

(* ------------------------- call records -------------------------------- *)

Call(n, f, c, cr, cf) ==
    [name |-> n, fileId |-> f, content |-> c, credentials |-> cr, config |-> cf]

NoCall == Call("none", Undefined, Undefined, NoCredentials, NoConfig)

NoRequired == [state |-> "none", map |-> {}]

NoOptions == [url |-> <<>>, method |-> "", contentType |-> "", authorization |-> <<>>,
              body |-> {}, hasBody |-> FALSE]

(* ------------------------- bounds and inputs --------------------------- *)

MaxUrlLen == 3

UrlChars == {"a", "Z", "7", ":", "/"}

\* Configuration values of the credential-name specification.
WideUrls == {Undefined} \cup {Str(s) : s \in Strs(UrlChars, MaxUrlLen)}

WideUniverses == {Str(<<"a","_">>), Str(<<"a","-">>)}

WideConfigs == {Config(u, n) : u \in WideUrls, n \in WideUniverses}

AltConfigs == {Config(Str(<<"a","/">>), Str(<<"Z">>)),
               Config(Str(<<"Z",":","7">>), Undefined)}

\* Configuration values of the client specification.
ServerUrls == {Undefined, Str(<<"a",":">>), Str(<<"Z","/">>)}

Universes == {Undefined, Str(<<"a","_">>), Str(<<"a","-">>)}

Configs == {Config(u, n) : u \in ServerUrls, n \in Universes}

TokenValues == {<<>>, <<"t">>, <<"s">>}

\* Credential maps a host may supply: empty, or one entry under one of names.
CredentialMaps(names) ==
    {NoCredentials} \cup {n :> v : n \in names, v \in TokenValues}

\* The names the host knows: those requiredCredentials returned, and the
\* names derived from the urls it has at hand.
HostNames(urls) ==
    {p[1] : p \in required.map} \cup {generateCredentialName(u.v) : u \in {y \in urls : IsString(y)}}

(* ------------------------- initial state ------------------------------- *)

Init == /\ variant \in {"plain", "retrying"}
        /\ constructed = FALSE
        /\ config = NoConfig
        /\ serverUrl = Undefined
        /\ universe = Undefined
        /\ token = Undefined
        /\ required = NoRequired
        /\ last = NoCall
        /\ pc = "idle"
        /\ options = NoOptions
        /\ requests = <<>>
        /\ attempts = <<>>
        /\ result = NoResult

\* What a call that never reaches fetchApi leaves of the transport state.
NoTransport == /\ pc' = "idle"
               /\ options' = NoOptions
               /\ requests' = <<>>
               /\ attempts' = <<>>

(* ------------------------- construction -------------------------------- *)

\* index.ts: the constructor keeps the configuration and checks nothing.
constructorPlain(cfg) ==
    /\ variant = "plain" /\ ~constructed
    /\ constructed' = TRUE
    /\ config' = cfg
    /\ last' = Call("constructor", Undefined, Undefined, NoCredentials, cfg)
    /\ result' = Ok
    /\ NoTransport
    /\ UNCHANGED <<variant, serverUrl, universe, token, required>>

\* The error the validating constructor throws, Ok when it throws none.
constructorCheck(cfg) ==
    IF ~Truthy(cfg.serverUrl)
    THEN Err("serverUrl must be specified in the config", <<>>)
    ELSE IF ~Truthy(cfg.universe)
    THEN Err("universe must be specified in the config", <<>>)
    ELSE IF ~IsValidURL(cfg.serverUrl.v)
    THEN Err("serverUrl must be a valid URL", <<>>)
    ELSE IF ~UniverseRegexTest(cfg.universe.v)
    THEN Err("universe must be alphanumeric with underscores", <<>>)
    ELSE Ok

\* part_000: a constructor that throws leaves no object behind.
constructorRetrying(cfg) ==
    /\ variant = "retrying" /\ ~constructed
    /\ result' = constructorCheck(cfg)
    /\ last' = Call("constructor", Undefined, Undefined, NoCredentials, cfg)
    /\ IF constructorCheck(cfg) = Ok
       THEN /\ constructed' = TRUE
            /\ serverUrl' = cfg.serverUrl
            /\ universe' = cfg.universe
       ELSE UNCHANGED <<constructed, serverUrl, universe>>
    /\ NoTransport
    /\ UNCHANGED <<variant, config, token, required>>

(* ------------------------- requiredCredentials ------------------------- *)

Description(url) == [text |-> "The bearer token for the Universe server", url |-> url]

requiredCredentialsPlain ==
    /\ variant = "plain" /\ constructed /\ pc = "idle"
    /\ last' = Call("requiredCredentials", Undefined, Undefined, NoCredentials, NoConfig)
    /\ IF ~Truthy(config.serverUrl)
       THEN /\ result' = Err("serverUrl must be specified in the config to determine the credential name", <<>>)
            /\ required' = [state |-> "error", map |-> {}]
       ELSE /\ result' = Ok
            /\ required' = [state |-> "ok",
                            map |-> {<<generateCredentialName(config.serverUrl.v),
                                       Description(config.serverUrl.v)>>}]
    /\ NoTransport
    /\ UNCHANGED <<variant, constructed, config, serverUrl, universe, token>>

\* The name derived from the universe instead of the server url.
requiredCredentialsFromUniverse ==
    /\ variant = "retrying" /\ constructed /\ pc = "idle"
    /\ last' = Call("requiredCredentials", Undefined, Undefined, NoCredentials, NoConfig)
    /\ result' = Ok
    /\ required' = [state |-> "ok",
                    map |-> {<<generateCredentialName(universe.v), Description(serverUrl.v)>>}]
    /\ NoTransport
    /\ UNCHANGED <<variant, constructed, config, serverUrl, universe, token>>

requiredCredentialsRetrying ==
    /\ variant = "retrying" /\ constructed /\ pc = "idle"
    /\ last' = Call("requiredCredentials", Undefined, Undefined, NoCredentials, NoConfig)
    /\ result' = Ok
    /\ required' = [state |-> "ok",
                    map |-> {<<generateCredentialName(serverUrl.v), Description(serverUrl.v)>>}]
    /\ NoTransport
    /\ UNCHANGED <<variant, constructed, config, serverUrl, universe, token>>

(* ------------------------- init ---------------------------------------- *)

CredentialRequired(name) == Err("Credential is required", name)

initPlain(credentials, cfg) ==
    /\ variant = "plain" /\ constructed /\ pc = "idle"
    /\ last' = Call("init", Undefined, Undefined, credentials, cfg)
    /\ IF ~Truthy(cfg.serverUrl)
       THEN /\ result' = Err("serverUrl must be specified in the config", <<>>)
            /\ UNCHANGED <<serverUrl, universe, token>>
       ELSE IF ~Truthy(cfg.universe)
       THEN /\ result' = Err("universe must be specified in the config", <<>>)
            /\ UNCHANGED <<serverUrl, universe, token>>
       ELSE LET credentialName == generateCredentialName(cfg.serverUrl.v) IN
            IF ~Truthy(Lookup(credentials, credentialName))
            THEN /\ result' = CredentialRequired(credentialName)
                 /\ UNCHANGED <<serverUrl, universe, token>>
            ELSE /\ result' = Ok
                 /\ serverUrl' = cfg.serverUrl
                 /\ universe' = cfg.universe
                 /\ token' = Lookup(credentials, credentialName)
    /\ NoTransport
    /\ UNCHANGED <<variant, constructed, config, required>>

\* The token stored before the credential is checked.
initRetryingEager(credentials) ==
    /\ variant = "retrying" /\ constructed /\ pc = "idle"
    /\ last' = Call("init", Undefined, Undefined, credentials, NoConfig)
    /\ LET credentialName == generateCredentialName(serverUrl.v) IN
       /\ token' = Lookup(credentials, credentialName)
       /\ result' = IF ~Truthy(Lookup(credentials, credentialName))
                    THEN CredentialRequired(credentialName) ELSE Ok
    /\ NoTransport
    /\ UNCHANGED <<variant, constructed, config, serverUrl, universe, required>>

initRetrying(credentials) ==
    /\ variant = "retrying" /\ constructed /\ pc = "idle"
    /\ last' = Call("init", Undefined, Undefined, credentials, NoConfig)
    /\ LET credentialName == generateCredentialName(serverUrl.v) IN
       IF ~Truthy(Lookup(credentials, credentialName))
       THEN /\ result' = CredentialRequired(credentialName)
            /\ UNCHANGED token
       ELSE /\ result' = Ok
            /\ token' = Lookup(credentials, credentialName)
    /\ NoTransport
    /\ UNCHANGED <<variant, constructed, config, serverUrl, universe, required>>

(* ------------------------- transport ----------------------------------- *)

Reject(m) == [kind |-> "reject", message |-> m, status |-> 0, statusText |-> "",
              json |-> FALSE, error |-> "", description |-> ""]

\* An HTTP response; json says whether the body parses as a JSON object,
\* error and description are its fields of those names ("" when absent).
Response(st, txt, js, e, d) ==
    [kind |-> "response", message |-> "", status |-> st, statusText |-> txt,
     json |-> js, error |-> e, description |-> d]

Responses == {Reject("ECONNREFUSED"),
              Reject("ENOTFOUND"),
              Response(200, "OK", TRUE, "", ""),
              Response(200, "OK", FALSE, "", ""),
              Response(404, "Not Found", TRUE, "not found", ""),
              Response(404, "Not Found", TRUE, "", ""),
              Response(500, "Internal Server Error", TRUE, "", "boom"),
              Response(500, "Internal Server Error", FALSE, "", "")}

\* response.ok
ResponseOk(r) == r.status \in 200..299

RECURSIVE Decimal(_)
\* `${response.status}`
Decimal(n) == IF n < 10 THEN <<Digit10(n)>> ELSE Decimal(n \div 10) \o <<Digit10(n % 10)>>

\* response.json()
ResponseJson(r) == IF r.json THEN Ok ELSE Err("Unexpected token in JSON", <<>>)

\* JSON.stringify of an object given by its <<path, value>> pairs: a
\* property whose value is undefined is left out.
JSONstringify(fields) == {p \in fields : p[2].t # "undefined"}

\* The url and options both fetchApi methods build before calling fetch.
RequestOptions(endpoint, method, body, hasBody) ==
    [url |-> Interpolate(serverUrl) \o endpoint,
     method |-> method,
     contentType |-> "application/json",
     authorization |-> <<"B","e","a","r","e","r"," ">> \o Interpolate(token),
     body |-> IF hasBody THEN JSONstringify(body) ELSE {},
     hasBody |-> hasBody]

\* fetch(url, options) of Node: a url that does not parse rejects at once
\* and nothing is sent; otherwise the request is on the wire.
Sent(opts, reqs) == IF IsValidURL(opts.url) THEN Append(reqs, opts) ELSE reqs

FetchOutcomes(opts) == IF IsValidURL(opts.url) THEN Responses
                       ELSE {Reject("Failed to parse URL")}

\* What the awaited fetch call raises or returns to its caller.
Rejection(r) == Err(r.message, <<>>)

\* Both fetchApi methods up to the first `await fetch`.
fetchApi(endpoint, method, body, hasBody) ==
    /\ options' = RequestOptions(endpoint, method, body, hasBody)
    /\ requests' = Sent(RequestOptions(endpoint, method, body, hasBody), <<>>)
    /\ attempts' = <<>>
    /\ result' = Pending
    /\ pc' = "await1"

\* index.ts: the rest of fetchApi.
responsePlain(r) ==
    IF r.kind = "reject" THEN Rejection(r)
    ELSE IF ~ResponseOk(r)
    THEN Err("API request to url failed: ", options.url \o <<r.statusText>>)
    ELSE ResponseJson(r)

fetchSettlesPlain ==
    /\ variant = "plain" /\ pc = "await1"
    /\ \E r \in FetchOutcomes(options) :
          /\ attempts' = Append(attempts, r)
          /\ result' = responsePlain(r)
    /\ pc' = "idle"
    /\ UNCHANGED <<variant, constructed, config, serverUrl, universe, token,
                   required, last, options, requests>>

\* part_000: handleResponse.
handleResponse(r) ==
    IF ResponseOk(r) THEN ResponseJson(r)
    ELSE LET errorMessage == IF r.json /\ r.error # "" THEN r.error
                             ELSE IF r.json /\ r.description # "" THEN r.description
                             ELSE r.statusText
         IN Err("API request failed: ", Decimal(r.status) \o <<" - ", errorMessage>>)

\* What the body of a try block of fetchApi evaluates to.
tryFetch(r) == IF r.kind = "reject" THEN Rejection(r) ELSE handleResponse(r)

\* The outer catch rethrowing instead of retrying.
firstAttemptNoRetry ==
    /\ variant = "retrying" /\ pc = "await1"
    /\ \E r \in FetchOutcomes(options) :
          /\ attempts' = Append(attempts, r)
          /\ result' = tryFetch(r)
    /\ pc' = "idle"
    /\ UNCHANGED <<variant, constructed, config, serverUrl, universe, token,
                   required, last, options, requests>>

\* part_000: the outer try of fetchApi; whatever it throws starts the delay.
firstAttemptRetrying ==
    /\ variant = "retrying" /\ pc = "await1"
    /\ \E r \in FetchOutcomes(options) :
          /\ attempts' = Append(attempts, r)
          /\ IF tryFetch(r) = Ok
             THEN result' = Ok /\ pc' = "idle"
             ELSE result' = Pending /\ pc' = "delay"
    /\ UNCHANGED <<variant, constructed, config, serverUrl, universe, token,
                   required, last, options, requests>>

\* part_000: the one-second timer fires and fetch is called again.
retryTimer ==
    /\ variant = "retrying" /\ pc = "delay"
    /\ requests' = Sent(options, requests)
    /\ pc' = "await2"
    /\ UNCHANGED <<variant, constructed, config, serverUrl, universe, token,
                   required, last, options, attempts, result>>

\* part_000: the inner try of fetchApi.
secondAttemptRetrying ==
    /\ variant = "retrying" /\ pc = "await2"
    /\ \E r \in FetchOutcomes(options) :
          /\ attempts' = Append(attempts, r)
          /\ result' = IF tryFetch(r) = Ok THEN Ok
                       ELSE Err("API request failed after retry: ", Message(tryFetch(r)))
    /\ pc' = "idle"
    /\ UNCHANGED <<variant, constructed, config, serverUrl, universe, token,
                   required, last, options, requests>>

(* ------------------------- data operations ----------------------------- *)

\* The host calls method n of a constructed client and awaits it.
Invoke(v, n, f, c) ==
    /\ variant = v /\ constructed /\ pc = "idle"
    /\ last' = Call(n, f, c, NoCredentials, NoConfig)

Frame == UNCHANGED <<variant, constructed, config, serverUrl, universe, token, required>>

Throw(e) == result' = e /\ NoTransport

EmitBody(fileId, content) ==
    {<<"universe", universe>>, <<"thing.id", fileId>>, <<"thing.text", content>>}

EmitEndpoint == <<"/","e","m","i","t">>

ThingEndpoint(fileId) ==
    <<"/","t","h","i","n","g","/">> \o Interpolate(universe) \o <<"/">> \o Interpolate(fileId)

UniverseEndpoint == <<"/","u","n","i","v","e","r","s","e","/">> \o Interpolate(universe)

addFilePlain(fileId, content) ==
    /\ fetchApi(EmitEndpoint, "POST", EmitBody(fileId, content), TRUE)
    /\ Frame

updateFilePlain(fileId, content) == addFilePlain(fileId, content)

deleteFilePlain(fileId) ==
    /\ fetchApi(ThingEndpoint(fileId), "DELETE", {}, FALSE)
    /\ Frame

finalizePlain == result' = Ok /\ NoTransport /\ Frame

deleteAllFilesPlain ==
    /\ fetchApi(UniverseEndpoint, "DELETE", {}, FALSE)
    /\ Frame

\* typeof fileId !== 'string' || fileId.trim() === ''
BadFileId(fileId) == ~IsString(fileId) \/ Trim(fileId.v) = <<>>

addFileRetrying(fileId, content) ==
    /\ IF BadFileId(fileId)
       THEN Throw(Err("fileId must be a non-empty string", <<>>))
       ELSE IF ~IsString(content)
       THEN Throw(Err("content must be a string", <<>>))
       ELSE fetchApi(EmitEndpoint, "POST", EmitBody(fileId, content), TRUE)
    /\ Frame

\* An update with a code path of its own, without the argument checks.
updateFileUnchecked(fileId, content) ==
    /\ fetchApi(EmitEndpoint, "POST", EmitBody(fileId, content), TRUE)
    /\ Frame

updateFileRetrying(fileId, content) == addFileRetrying(fileId, content)

deleteFileRetrying(fileId) ==
    /\ IF BadFileId(fileId)
       THEN Throw(Err("fileId must be a non-empty string", <<>>))
       ELSE fetchApi(ThingEndpoint(fileId), "DELETE", {}, FALSE)
    /\ Frame

\* A finalize that forgets the credential.
finalizeClearsToken ==
    /\ result' = Ok /\ NoTransport /\ token' = Undefined
    /\ UNCHANGED <<variant, constructed, config, serverUrl, universe, required>>

finalizeRetrying == result' = Ok /\ NoTransport /\ Frame

deleteAllFilesRetrying ==
    /\ fetchApi(UniverseEndpoint, "DELETE", {}, FALSE)
    /\ Frame

FileIds == {Str(<<"x">>), Str(<<>>), Str(<<" ">>), Num(<<"7">>), Undefined}

Contents == {Str(<<"c">>), Str(<<>>), Undefined}

(* ------------------------- client specification ------------------------ *)

Next ==
    \/ \E cfg \in Configs : constructorPlain(cfg)
    \/ \E cfg \in Configs : constructorRetrying(cfg)
    \/ requiredCredentialsPlain
    \/ requiredCredentialsRetrying
    \/ \E cfg \in Configs : \E credentials \in CredentialMaps(HostNames(ServerUrls)) :
          initPlain(credentials, cfg)
    \/ \E credentials \in CredentialMaps(HostNames(ServerUrls)) : initRetrying(credentials)
    \/ \E f \in FileIds, c \in Contents : Invoke("plain", "addFile", f, c) /\ addFilePlain(f, c)
    \/ \E f \in FileIds, c \in Contents : Invoke("plain", "updateFile", f, c) /\ updateFilePlain(f, c)
    \/ \E f \in FileIds : Invoke("plain", "deleteFile", f, Undefined) /\ deleteFilePlain(f)
    \/ Invoke("plain", "deleteAllFiles", Undefined, Undefined) /\ deleteAllFilesPlain
    \/ Invoke("plain", "finalize", Undefined, Undefined) /\ finalizePlain
    \/ fetchSettlesPlain
    \/ \E f \in FileIds, c \in Contents : Invoke("retrying", "addFile", f, c) /\ addFileRetrying(f, c)
    \/ \E f \in FileIds, c \in Contents : Invoke("retrying", "updateFile", f, c) /\ updateFileRetrying(f, c)
    \/ \E f \in FileIds : Invoke("retrying", "deleteFile", f, Undefined) /\ deleteFileRetrying(f)
    \/ Invoke("retrying", "deleteAllFiles", Undefined, Undefined) /\ deleteAllFilesRetrying
    \/ Invoke("retrying", "finalize", Undefined, Undefined) /\ finalizeRetrying
    \/ firstAttemptRetrying
    \/ retryTimer
    \/ secondAttemptRetrying

Spec == Init /\ [][Next]_vars

(* ------------------------- credential-name specification --------------- *)

NextCred ==
    \/ \E cfg \in WideConfigs : constructorPlain(cfg)
    \/ \E cfg \in WideConfigs : constructorRetrying(cfg)
    \/ requiredCredentialsPlain
    \/ requiredCredentialsRetrying
    \/ \E cfg \in {config} \cup AltConfigs :
         \E credentials \in CredentialMaps(HostNames({cfg.serverUrl, config.serverUrl})) :
            initPlain(credentials, cfg)
    \/ \E credentials \in CredentialMaps(HostNames({serverUrl, Str(<<"Z",":">>)})) :
         initRetrying(credentials)

SpecCred == Init /\ [][NextCred]_vars

(* ------------------------- properties ---------------------------------- *)

IsDataCall == last.name \in {"addFile", "updateFile", "deleteFile", "deleteAllFiles"}

TransportFailure(r) == r.kind = "reject"

HttpError(r) == r.kind = "response" /\ r.status \notin 200..299

Succeeds(r) == r.kind = "response" /\ r.status \in 200..299 /\ r.json

IsCredentialError(r) == r.state = "error" /\ r.msg = "Credential is required"

IsValidationError(r) ==
    r.state = "error" /\ r.msg \in {"fileId must be a non-empty string", "content must be a string"}

\* The message the specification extracts from an error response.
ExtractedMessage(r) == IF r.json /\ r.error # "" THEN r.error
                       ELSE IF r.json /\ r.description # "" THEN r.description
                       ELSE r.statusText

Bearer(tok) == <<"B","e","a","r","e","r"," ">> \o tok

\* C1: in the retrying variant a data operation whose first attempt is
\* answered with a non-success HTTP status is over after that one attempt,
\* failed with an error that carries the status and the extracted message.
C1_HttpErrorNotRetried ==
    (variant = "retrying" /\ IsDataCall /\ Len(attempts) >= 1 /\ HttpError(attempts[1])) =>
        /\ pc = "idle"
        /\ Len(attempts) = 1
        /\ Len(requests) = 1
        /\ result = Err("API request failed: ",
                        Decimal(attempts[1].status) \o <<" - ", ExtractedMessage(attempts[1])>>)

\* C2: in the retrying variant a transport-level failure is retried exactly
\* once: a finished data operation whose first attempt failed at transport
\* level has made exactly two attempts, succeeded if the second succeeded,
\* failed with an error wrapping the second failure's message if the second
\* failed at transport level too; no operation makes a third attempt.
C2_RetriedExactlyOnce ==
    (variant = "retrying" /\ IsDataCall) =>
        /\ Len(attempts) <= 2
        /\ Len(requests) <= 2
        /\ (pc = "idle" /\ Len(attempts) >= 1 /\ TransportFailure(attempts[1])) =>
              /\ Len(attempts) = 2
              /\ Len(requests) = 2
              /\ Succeeds(attempts[2]) => result = Ok
              /\ TransportFailure(attempts[2]) =>
                    result = Err("API request failed after retry: ", <<attempts[2].message>>)

C2_Witness ==
    /\ variant = "retrying" /\ IsDataCall /\ pc = "idle"
    /\ Len(attempts) = 2 /\ Len(requests) = 2
    /\ TransportFailure(attempts[1]) /\ Succeeds(attempts[2])
    /\ result = Ok

\* C3: no client, of either variant, is initialized (holds a token) with a
\* server url that is not a well-formed URL or a universe name that has a
\* character outside [A-Za-z0-9_].
C3_InitializedConfigValid ==
    Truthy(token) =>
        /\ IsString(serverUrl) /\ IsValidURL(serverUrl.v)
        /\ IsString(universe) /\ universe.v # <<>>
        /\ \A i \in 1..Len(universe.v) : universe.v[i] \in Alnum \cup {"_"}

\* The server url an init call derives the credential name from.
InitUrl(call) == IF variant = "retrying" THEN serverUrl ELSE call.config.serverUrl

InitLookup(call) == Lookup(call.credentials, generateCredentialName(InitUrl(call).v))

\* C4 as stated: every init whose credentials have no entry, or an empty
\* one, under the name derived from the server url fails with a credential
\* error; a failed init changes nothing of serverUrl, universe and token; a
\* successful init stores the supplied token.
C4_InitAsStated ==
    [][last'.name = "init" =>
          /\ (Truthy(InitUrl(last')) /\ ~Truthy(InitLookup(last'))) => IsCredentialError(result')
          /\ result'.state = "error" => UNCHANGED <<serverUrl, universe, token>>
          /\ result'.state = "ok" => (token' = InitLookup(last') /\ Truthy(token'))
      ]_vars

\* C4 amended: every init whose credentials have no entry, or an empty one,
\* under the derived name fails, with a credential error unless the config
\* argument of the init-time variant lacks the universe (then with the
\* configuration error, which is checked first); a failed init changes
\* nothing of serverUrl, universe and token; a successful init stores the
\* supplied token.
C4_Init ==
    [][last'.name = "init" =>
          /\ (Truthy(InitUrl(last')) /\ ~Truthy(InitLookup(last'))) =>
                /\ result'.state = "error"
                /\ (variant = "plain" => Truthy(last'.config.universe)) => IsCredentialError(result')
          /\ result'.state = "error" => UNCHANGED <<serverUrl, universe, token>>
          /\ result'.state = "ok" => (token' = InitLookup(last') /\ Truthy(token'))
      ]_vars

\* A failed init after a successful one: the stored token is still there.
C4_Witness ==
    /\ last.name = "init" /\ IsCredentialError(result)
    /\ Truthy(token)

\* The request POST /emit of the current call, written out.
EmitRequest ==
    [url |-> Interpolate(serverUrl) \o <<"/","e","m","i","t">>,
     method |-> "POST",
     contentType |-> "application/json",
     authorization |-> Bearer(Interpolate(token)),
     body |-> {p \in {<<"universe", universe>>, <<"thing.id", last.fileId>>,
                      <<"thing.text", last.content>>} : p[2] # Undefined},
     hasBody |-> TRUE]

\* The arguments the retrying variant refuses.
RefusedArguments ==
    \/ ~IsString(last.fileId) \/ Trim(last.fileId.v) = <<>>
    \/ ~IsString(last.content)

\* C5: updateFile(fileId, content) and addFile(fileId, content) behave
\* alike: both are refused without a request in the same cases, both send
\* nothing but the POST /emit request built from the client state and the
\* arguments, and both end in success exactly when the last attempt was
\* answered with a success status and a JSON body.
C5_UpdateIsAdd ==
    last.name \in {"addFile", "updateFile"} =>
        IF variant = "retrying" /\ RefusedArguments
        THEN pc = "idle" /\ requests = <<>> /\ attempts = <<>> /\ IsValidationError(result)
        ELSE /\ options = EmitRequest
             /\ \A i \in 1..Len(requests) : requests[i] = EmitRequest
             /\ Len(requests) <= Len(attempts) + 1
             /\ pc = "idle" =>
                   /\ attempts # <<>>
                   /\ result.state \in {"ok", "error"}
                   /\ result.state = "ok" <=> Succeeds(attempts[Len(attempts)])

C5_Witness ==
    /\ last.name = "updateFile" /\ pc = "idle"
    /\ Len(requests) >= 1 /\ requests[1] = EmitRequest
    /\ result = Ok

\* C6: in both variants addFile, updateFile and deleteFile with a fileId
\* that is not a non-empty string fail with a validation error and send
\* nothing; addFile with an empty content and a proper fileId is not
\* refused and calls for POST /emit.
C6_FileIdValidated ==
    /\ (last.name \in {"addFile", "updateFile", "deleteFile"}
        /\ ~(IsString(last.fileId) /\ last.fileId.v # <<>>)) =>
            /\ pc = "idle" /\ requests = <<>> /\ attempts = <<>>
            /\ IsValidationError(result)
    /\ (last.name = "addFile" /\ last.fileId = Str(<<"x">>) /\ last.content = Str(<<>>)) =>
            /\ ~IsValidationError(result)
            /\ options.method = "POST"
            /\ options.url = Interpolate(serverUrl) \o <<"/","e","m","i","t">>

\* C7: finalize, in whatever state it is called, sends nothing, succeeds
\* and leaves serverUrl, universe and token as they were.
C7_FinalizeNoOp ==
    [][last'.name = "finalize" =>
          /\ UNCHANGED <<serverUrl, universe, token>>
          /\ requests' = <<>> /\ attempts' = <<>> /\ pc' = "idle"
          /\ result' = Ok
      ]_vars

C7_Witness ==
    /\ last.name = "finalize" /\ result = Ok
    /\ Truthy(token) /\ requests = <<>>

\* The server url requiredCredentials derives the name from.
RequiredUrl == IF variant = "retrying" THEN serverUrl.v ELSE config.serverUrl.v

\* C8: requiredCredentials returns exactly one key, "universe_token_"
\* followed by the server url with every character of [A-Za-z0-9] kept in
\* place and every other character replaced by one "_".
C8_CredentialName ==
    required.state = "ok" =>
        /\ Cardinality(required.map) = 1
        /\ \A p \in required.map :
              /\ Len(p[1]) = 15 + Len(RequiredUrl)
              /\ SubSeq(p[1], 1, 15) = <<"u","n","i","v","e","r","s","e","_","t","o","k","e","n","_">>
              /\ \A i \in 1..Len(RequiredUrl) :
                    p[1][15 + i] = IF RequiredUrl[i] \in Alnum THEN RequiredUrl[i] ELSE "_"

C8_Witness ==
    /\ required.state = "ok"
    /\ RequiredUrl = <<"a", ":", "/">>
    /\ \E p \in required.map : Drop(p[1], 15) = <<"a", "_", "_">>

\* C9: every request sent carries "Bearer " and the non-empty token the
\* client has stored, to a client whose serverUrl and universe are set.
C9_RequestsCarryToken ==
    \A i \in 1..Len(requests) :
        /\ Truthy(token)
        /\ requests[i].authorization = Bearer(token.v)
        /\ IsString(serverUrl) /\ IsString(universe)

\* The host has put a non-empty value under the key requiredCredentials returned.
RequiredSupplied ==
    /\ required.state = "ok" /\ last.name = "init"
    /\ \A p \in required.map : Truthy(Lookup(last.credentials, p[1]))

\* C10 as stated: an init given a non-empty value under the key that
\* requiredCredentials returned does not fail with the credential error.
C10_SameNameAsStated == RequiredSupplied => ~IsCredentialError(result)

\* C10 amended: the same, provided that in the init-time variant the server
\* url of init's config argument derives the credential name that the
\* server url of the constructor's config derives.
C10_SameName ==
    (/\ RequiredSupplied
     /\ variant = "plain" =>
           generateCredentialName(last.config.serverUrl.v) = generateCredentialName(config.serverUrl.v))
    => ~IsCredentialError(result)

\* An init-time client initialized under another url of the same name.
C10_Witness ==
    /\ RequiredSupplied /\ result = Ok
    /\ variant = "plain" /\ last.config.serverUrl # config.serverUrl

====
